---- MODULE Spec2Model ----
(***************************************************************************)
(* Model of sim::Vec2 (include/math/vec2.hpp): a value type of two double  *)
(* components with arithmetic, comparison and geometry operations.         *)
(*                                                                         *)
(* A double is modelled as a binary floating-point number of a small       *)
(* format with the IEEE-754 structure of the real one: signed zeros,       *)
(* subnormals, normal numbers, two infinities and NaN, every operation     *)
(* correctly rounded to nearest, ties to even.  A finite magnitude is an   *)
(* integer count of the smallest subnormal (the unit); 1.0 is One units.   *)
(***************************************************************************)
EXTENDS Integers

\* ------------------------------------------------------------------------
\* Bounds of the floating-point format (double: 53, 2046, 1074)
\* ------------------------------------------------------------------------
Precision == 3
ExpRange == 3
FracBits == 2

RECURSIVE Pow2(_)
Pow2(n) == IF n = 0 THEN 1 ELSE 2 * Pow2(n - 1)

One == Pow2(FracBits)
\* magnitudes below Pow2(Precision) are the subnormals and the first binade
Mags == (0 .. Pow2(Precision) - 1) \cup
        { k * Pow2(j) : k \in Pow2(Precision - 1) .. (Pow2(Precision) - 1), j \in 1 .. ExpRange }
MaxMag == (Pow2(Precision) - 1) * Pow2(ExpRange)
\* the first magnitude beyond the format: a result rounded to it overflows
Top == Pow2(Precision) * Pow2(ExpRange)

\* number of binary digits of n
RECURSIVE BitLen(_)
BitLen(n) == IF n = 0 THEN 0 ELSE 1 + BitLen(n \div 2)

\* exponent of the binade holding the magnitude f: the spacing there is Pow2 of it
ExpOf(f) == IF f < Pow2(Precision) THEN 0 ELSE BitLen(f) - Precision

\* largest r in lo .. hi with r * r <= q (lo * lo <= q)
RECURSIVE ISqrt(_, _, _)
ISqrt(q, lo, hi) ==
  IF lo >= hi THEN lo
  ELSE LET mid == (lo + hi + 1) \div 2
       IN IF mid * mid <= q THEN ISqrt(q, mid, hi) ELSE ISqrt(q, lo, mid - 1)

\* ------------------------------------------------------------------------
\* double values
\* ------------------------------------------------------------------------
Fin(s, m) == [c |-> "fin", s |-> s, m |-> m]
Inf(s) == [c |-> "inf", s |-> s, m |-> 0]
NaN == [c |-> "nan", s |-> 0, m |-> 0]
PosZero == Fin(0, 0)
NegZero == Fin(1, 0)
Double == { Fin(s, m) : s \in {0, 1}, m \in Mags } \cup { Inf(0), Inf(1), NaN }

IsNaN(a) == a.c = "nan"
IsInf(a) == a.c = "inf"
IsFin(a) == a.c = "fin"
IsZero(a) == a.c = "fin" /\ a.m = 0
\* the signed number of units of a finite value
Val(a) == IF a.s = 1 THEN 0 - a.m ELSE a.m
Xor(s, t) == IF s = t THEN 0 ELSE 1

\* the magnitude nearest to the rational n/d (n >= 0, d > 0), ties to even;
\* a result of Top or more stands for overflow
RoundMag(n, d) ==
  LET sp == Pow2(ExpOf(n \div d))
      k == n \div (d * sp)
      rem == n - k * d * sp
      up == \/ 2 * rem > d * sp
            \/ 2 * rem = d * sp /\ k % 2 = 1
  IN IF up THEN (k + 1) * sp ELSE k * sp

\* the double nearest to (-1)^s * n/d
Round(s, n, d) ==
  LET m == RoundMag(n, d)
  IN IF m >= Top THEN Inf(s) ELSE Fin(s, m)

\* unary minus on a double
fneg(a) == IF IsNaN(a) THEN NaN ELSE [a EXCEPT !.s = 1 - a.s]

\* a + b on doubles
fadd(a, b) ==
  IF IsNaN(a) \/ IsNaN(b) THEN NaN
  ELSE IF IsInf(a) /\ IsInf(b) THEN (IF a.s = b.s THEN a ELSE NaN)
  ELSE IF IsInf(a) THEN a
  ELSE IF IsInf(b) THEN b
  ELSE LET v == Val(a) + Val(b)
       IN IF v = 0 THEN (IF a.s = 1 /\ b.s = 1 THEN NegZero ELSE PosZero)
          ELSE IF v < 0 THEN Round(1, 0 - v, 1)
          ELSE Round(0, v, 1)

\* a * b on doubles
fmul(a, b) ==
  IF IsNaN(a) \/ IsNaN(b) THEN NaN
  ELSE IF (IsInf(a) /\ IsZero(b)) \/ (IsZero(a) /\ IsInf(b)) THEN NaN
  ELSE IF IsInf(a) \/ IsInf(b) THEN Inf(Xor(a.s, b.s))
  ELSE Round(Xor(a.s, b.s), a.m * b.m, One)

\* a / b on doubles
fdiv(a, b) ==
  IF IsNaN(a) \/ IsNaN(b) THEN NaN
  ELSE IF (IsInf(a) /\ IsInf(b)) \/ (IsZero(a) /\ IsZero(b)) THEN NaN
  ELSE IF IsInf(a) \/ IsZero(b) THEN Inf(Xor(a.s, b.s))
  ELSE IF IsInf(b) THEN Fin(Xor(a.s, b.s), 0)
  ELSE Round(Xor(a.s, b.s), a.m * One, b.m)

\* std::sqrt, correctly rounded
fsqrt(a) ==
  IF IsNaN(a) THEN NaN
  ELSE IF IsZero(a) THEN a
  ELSE IF a.s = 1 THEN NaN
  ELSE IF IsInf(a) THEN a
  ELSE LET q == a.m * One
           f == ISqrt(q, 0, q)
           sp == Pow2(ExpOf(f))
           lo == (f \div sp) * sp
           hi == lo + sp
       IN IF lo * lo = q THEN Fin(0, lo)
          ELSE IF 4 * q < (lo + hi) * (lo + hi) THEN Fin(0, lo)
          ELSE IF 4 * q > (lo + hi) * (lo + hi) THEN Fin(0, hi)
          ELSE IF (lo \div sp) % 2 = 0 THEN Fin(0, lo) ELSE Fin(0, hi)

\* The operations as the program applies them: each is a function of its
\* operands alone, so its value is looked up in the table of all of them
AddTable == [a \in Double |-> [b \in Double |-> fadd(a, b)]]
MulTable == [a \in Double |-> [b \in Double |-> fmul(a, b)]]
DivTable == [a \in Double |-> [b \in Double |-> fdiv(a, b)]]
SqrtTable == [a \in Double |-> fsqrt(a)]
plus(a, b) == AddTable[a][b]
\* a - b is a + (-b), NaN and signed zeros included
minus(a, b) == AddTable[a][fneg(b)]
times(a, b) == MulTable[a][b]
over(a, b) == DivTable[a][b]
sqrt(a) == SqrtTable[a]

\* a < b, a == b, a > b on doubles: false when either is NaN; -0 == +0
Rank(a) == IF IsInf(a) THEN (IF a.s = 1 THEN 0 - (Top + 1) ELSE Top + 1) ELSE Val(a)
flt(a, b) == ~IsNaN(a) /\ ~IsNaN(b) /\ Rank(a) < Rank(b)
feq(a, b) == ~IsNaN(a) /\ ~IsNaN(b) /\ Rank(a) = Rank(b)
fgt(a, b) == flt(b, a)

\* a <=> b on doubles: std::partial_ordering
fcmp(a, b) ==
  IF flt(a, b) THEN "less"
  ELSE IF fgt(a, b) THEN "greater"
  ELSE IF feq(a, b) THEN "equivalent"
  ELSE "unordered"

\* ------------------------------------------------------------------------
\* struct Vec2 { double x; double y; }
\* ------------------------------------------------------------------------
Vec(x, y) == [x |-> x, y |-> y]
\* Vec2(): both members default to 0.0
ZeroVec == Vec(PosZero, PosZero)

Add(a, o) == Vec(plus(a.x, o.x), plus(a.y, o.y))
Sub(a, o) == Vec(minus(a.x, o.x), minus(a.y, o.y))
Mul(a, s) == Vec(times(a.x, s), times(a.y, s))
Div(a, s) == Vec(over(a.x, s), over(a.y, s))
Neg(a) == Vec(fneg(a.x), fneg(a.y))
\* x used for both members
ScalarMulXTwice(s, v) == Vec(times(v.x, s), times(v.x, s))
\* the free function operator*(Scalar s, const Vec2& v)
ScalarMul(s, v) == Vec(times(v.x, s), times(v.y, s))

\* the members compared in the wrong order: y first
SpaceshipYFirst(a, o) ==
  LET cy == fcmp(a.y, o.y)
  IN IF cy # "equivalent" THEN cy ELSE fcmp(a.x, o.x)
\* defaulted operator<=>: members in declaration order, the first one that
\* does not compare equivalent decides
Spaceship(a, o) ==
  LET cx == fcmp(a.x, o.x)
  IN IF cx # "equivalent" THEN cx ELSE fcmp(a.y, o.y)
\* only x compared
EqXOnly(a, o) == feq(a.x, o.x)
\* defaulted operator==: memberwise ==
Eq(a, o) == feq(a.x, o.x) /\ feq(a.y, o.y)
Ne(a, o) == ~Eq(a, o)
Less(a, o) == Spaceship(a, o) = "less"
LessEq(a, o) == Spaceship(a, o) \in {"less", "equivalent"}
Greater(a, o) == Spaceship(a, o) = "greater"
GreaterEq(a, o) == Spaceship(a, o) \in {"greater", "equivalent"}

dot(a, o) == plus(times(a.x, o.x), times(a.y, o.y))
\* the two products subtracted the other way round
crossSwapped(a, o) == minus(times(a.y, o.x), times(a.x, o.y))
cross(a, o) == minus(times(a.x, o.y), times(a.y, o.x))
length_sq(a) == plus(times(a.x, a.x), times(a.y, a.y))
length(a) == sqrt(plus(times(a.x, a.x), times(a.y, a.y)))
\* the division made without the guard on the length
normalizedUnguarded(a) == Div(a, length(a))
normalized(a) ==
  LET len == length(a)
  IN IF fgt(len, PosZero) THEN Div(a, len) ELSE ZeroVec
\* the length of the sum instead of the difference
distanceToSum(a, o) == length(Add(a, o))
distance_to(a, o) == length(Sub(a, o))
distance_sq_to(a, o) == length_sq(Sub(a, o))
\* the quarter turn made clockwise
perpendicularClockwise(a) == Vec(a.y, fneg(a.x))
perpendicular(a) == Vec(fneg(a.y), a.x)
lerp(a, o, t) == Add(a, Mul(Sub(o, a), t))

\* ------------------------------------------------------------------------
\* Compound assignment on a store of vectors: the receiver is vs[i], the
\* operand is a reference to vs[j] (possibly the receiver itself); x is
\* assigned first and the operand is read again for y.
\* ------------------------------------------------------------------------
\* y += o.x instead of y += o.y
AddAssignYFromX(vs, i, j) ==
  LET v1 == [vs EXCEPT ![i].x = plus(vs[i].x, vs[j].x)]
  IN [v1 EXCEPT ![i].y = plus(v1[i].y, v1[j].x)]
AddAssign(vs, i, j) ==
  LET v1 == [vs EXCEPT ![i].x = plus(vs[i].x, vs[j].x)]
  IN [v1 EXCEPT ![i].y = plus(v1[i].y, v1[j].y)]
SubAssign(vs, i, j) ==
  LET v1 == [vs EXCEPT ![i].x = minus(vs[i].x, vs[j].x)]
  IN [v1 EXCEPT ![i].y = minus(v1[i].y, v1[j].y)]
MulAssign(vs, i, s) ==
  LET v1 == [vs EXCEPT ![i].x = times(vs[i].x, s)]
  IN [v1 EXCEPT ![i].y = times(v1[i].y, s)]
DivAssign(vs, i, s) ==
  LET v1 == [vs EXCEPT ![i].x = over(vs[i].x, s)]
  IN [v1 EXCEPT ![i].y = over(v1[i].y, s)]

\* ------------------------------------------------------------------------
\* The program: a store of two vectors and the operations applied to them
\* ------------------------------------------------------------------------
\* vecs: the store; op, recv, arg, sc: the last operation, its receiver, its
\* vector operand and its scalar operand; ret: what it returned; prev: the
\* store before it; chain: the vectors recomputed with the binary operators
\* only; muts: the number of compound assignments so far
VARIABLES vecs, op, recv, arg, sc, ret, prev, chain, muts
vars == <<vecs, op, recv, arg, sc, ret, prev, chain, muts>>

\* bound on the number of compound assignments in one run
MaxMuts == 2

Ids == {1, 2}
Num(n) == Fin(0, n * One)
MinSub == Fin(0, 1)
MaxFin == Fin(0, MaxMag)
\* the vectors the run starts from
InitVecs == { ZeroVec, Vec(NegZero, Num(1)),
              Vec(Num(1), PosZero), Vec(Num(1), Num(2)), Vec(Num(1), Num(5)),
              Vec(Num(2), PosZero), Vec(Num(2), Num(3)), Vec(Num(2), Num(4)),
              Vec(fneg(Num(3)), Num(1)),
              Vec(MinSub, MinSub), Vec(MaxFin, Num(2)),
              Vec(Inf(0), NegZero), Vec(Num(1), NaN), Vec(NaN, Num(1)) }
\* the scalars passed to * and / and the parameters passed to lerp
Scalars == { PosZero, Num(2), fneg(Num(1)) }
Params == { PosZero, Num(1), Num(2), fneg(Num(1)) }
Compound == { "+=", "-=", "*=", "/=" }

\* what an operation returned
RetVec(v) == [k |-> "vec", v |-> v, d |-> PosZero, b |-> FALSE, o |-> "", r |-> 0]
RetDbl(d) == [k |-> "dbl", v |-> ZeroVec, d |-> d, b |-> FALSE, o |-> "", r |-> 0]
RetBool(b) == [k |-> "bool", v |-> ZeroVec, d |-> PosZero, b |-> b, o |-> "", r |-> 0]
RetOrd(o) == [k |-> "ord", v |-> ZeroVec, d |-> PosZero, b |-> FALSE, o |-> o, r |-> 0]
\* a compound operator returns *this: a reference to the receiver
RetRef(i) == [k |-> "ref", v |-> ZeroVec, d |-> PosZero, b |-> FALSE, o |-> "", r |-> i]
RetNone == [k |-> "none", v |-> ZeroVec, d |-> PosZero, b |-> FALSE, o |-> "", r |-> 0]

Store(a, b) == [i \in Ids |-> IF i = 1 THEN a ELSE b]
\* the store a run with compound assignments starts from
AssignStores == { Store(Vec(Num(1), Num(2)), Vec(MaxFin, MinSub)) }

Start(S) ==
  /\ vecs \in S
  /\ prev = vecs
  /\ chain = vecs
  /\ op = "init"
  /\ recv = 1
  /\ arg = 1
  /\ sc = PosZero
  /\ ret = RetNone
  /\ muts = 0

Init == Start([Ids -> InitVecs])
InitAssign == Start(AssignStores)

\* a const member or free function: nothing in the store is written
Pure(name, i, j, s, r) ==
  /\ op' = name
  /\ recv' = i
  /\ arg' = j
  /\ sc' = s
  /\ ret' = r
  /\ prev' = vecs
  /\ UNCHANGED <<vecs, chain, muts>>

DoAdd(i, j) == Pure("+", i, j, PosZero, RetVec(Add(vecs[i], vecs[j])))
DoSub(i, j) == Pure("-", i, j, PosZero, RetVec(Sub(vecs[i], vecs[j])))
DoMul(i, s) == Pure("*", i, i, s, RetVec(Mul(vecs[i], s)))
DoDiv(i, s) == Pure("/", i, i, s, RetVec(Div(vecs[i], s)))
DoNeg(i) == Pure("neg", i, i, PosZero, RetVec(Neg(vecs[i])))
DoScalarMul(i, s) == Pure("s*v", i, i, s, RetVec(ScalarMul(s, vecs[i])))
DoSpaceship(i, j) == Pure("<=>", i, j, PosZero, RetOrd(Spaceship(vecs[i], vecs[j])))
DoEq(i, j) == Pure("==", i, j, PosZero, RetBool(Eq(vecs[i], vecs[j])))
DoNe(i, j) == Pure("!=", i, j, PosZero, RetBool(Ne(vecs[i], vecs[j])))
DoLess(i, j) == Pure("<", i, j, PosZero, RetBool(Less(vecs[i], vecs[j])))
DoLessEq(i, j) == Pure("<=", i, j, PosZero, RetBool(LessEq(vecs[i], vecs[j])))
DoGreater(i, j) == Pure(">", i, j, PosZero, RetBool(Greater(vecs[i], vecs[j])))
DoGreaterEq(i, j) == Pure(">=", i, j, PosZero, RetBool(GreaterEq(vecs[i], vecs[j])))
DoDot(i, j) == Pure("dot", i, j, PosZero, RetDbl(dot(vecs[i], vecs[j])))
DoCross(i, j) == Pure("cross", i, j, PosZero, RetDbl(cross(vecs[i], vecs[j])))
DoLength(i) == Pure("length", i, i, PosZero, RetDbl(length(vecs[i])))
DoLengthSq(i) == Pure("length_sq", i, i, PosZero, RetDbl(length_sq(vecs[i])))
DoNormalized(i) == Pure("normalized", i, i, PosZero, RetVec(normalized(vecs[i])))
DoDistanceTo(i, j) == Pure("distance_to", i, j, PosZero, RetDbl(distance_to(vecs[i], vecs[j])))
DoDistanceSqTo(i, j) ==
  Pure("distance_sq_to", i, j, PosZero, RetDbl(distance_sq_to(vecs[i], vecs[j])))
\* perpendicular() writing its result into the receiver
DoPerpendicularInPlace(i) ==
  /\ op' = "perpendicular"
  /\ recv' = i
  /\ arg' = i
  /\ sc' = PosZero
  /\ ret' = RetVec(perpendicular(vecs[i]))
  /\ prev' = vecs
  /\ vecs' = [vecs EXCEPT ![i] = perpendicular(vecs[i])]
  /\ UNCHANGED <<chain, muts>>
DoPerpendicular(i) == Pure("perpendicular", i, i, PosZero, RetVec(perpendicular(vecs[i])))
DoLerp(i, j, t) == Pure("lerp", i, j, t, RetVec(lerp(vecs[i], vecs[j], t)))

\* a compound operator: the receiver is written in place and returned by
\* reference; chain follows the receiver with the binary operator instead
Mutate(name, i, j, s, vs, c) ==
  /\ muts < MaxMuts
  /\ muts' = muts + 1
  /\ op' = name
  /\ recv' = i
  /\ arg' = j
  /\ sc' = s
  /\ vecs' = vs
  /\ prev' = vecs
  /\ chain' = [chain EXCEPT ![i] = c]
  /\ ret' = RetRef(i)

\* the operand of a binary operator standing for a compound one
Operand(i, j) == IF j = i THEN chain[i] ELSE vecs[j]

DoAddAssign(i, j) ==
  Mutate("+=", i, j, PosZero, AddAssign(vecs, i, j), Add(chain[i], Operand(i, j)))
DoSubAssign(i, j) ==
  Mutate("-=", i, j, PosZero, SubAssign(vecs, i, j), Sub(chain[i], Operand(i, j)))
DoMulAssign(i, s) == Mutate("*=", i, i, s, MulAssign(vecs, i, s), Mul(chain[i], s))
DoDivAssign(i, s) == Mutate("/=", i, i, s, DivAssign(vecs, i, s), Div(chain[i], s))

\* a program that calls only the const members and the free function
Next ==
  \/ \E i \in Ids, j \in Ids : DoAdd(i, j)
  \/ \E i \in Ids, j \in Ids : DoSub(i, j)
  \/ \E i \in Ids, s \in Scalars : DoMul(i, s)
  \/ \E i \in Ids, s \in Scalars : DoDiv(i, s)
  \/ \E i \in Ids : DoNeg(i)
  \/ \E i \in Ids, s \in Scalars : DoScalarMul(i, s)
  \/ \E i \in Ids, j \in Ids : DoSpaceship(i, j)
  \/ \E i \in Ids, j \in Ids : DoEq(i, j)
  \/ \E i \in Ids, j \in Ids : DoNe(i, j)
  \/ \E i \in Ids, j \in Ids : DoLess(i, j)
  \/ \E i \in Ids, j \in Ids : DoLessEq(i, j)
  \/ \E i \in Ids, j \in Ids : DoGreater(i, j)
  \/ \E i \in Ids, j \in Ids : DoGreaterEq(i, j)
  \/ \E i \in Ids, j \in Ids : DoDot(i, j)
  \/ \E i \in Ids, j \in Ids : DoCross(i, j)
  \/ \E i \in Ids : DoLength(i)
  \/ \E i \in Ids : DoLengthSq(i)
  \/ \E i \in Ids : DoNormalized(i)
  \/ \E i \in Ids, j \in Ids : DoDistanceTo(i, j)
  \/ \E i \in Ids, j \in Ids : DoDistanceSqTo(i, j)
  \/ \E i \in Ids : DoPerpendicular(i)
  \/ \E i \in Ids, j \in Ids, t \in Params : DoLerp(i, j, t)

\* a program that also calls the compound assignment operators
NextAssign ==
  \/ Next
  \/ \E i \in Ids, j \in Ids : DoAddAssign(i, j)
  \/ \E i \in Ids, j \in Ids : DoSubAssign(i, j)
  \/ \E i \in Ids, s \in Scalars : DoMulAssign(i, s)
  \/ \E i \in Ids, s \in Scalars : DoDivAssign(i, s)

Spec == Init /\ [][Next]_vars
SpecAssign == InitAssign /\ [][NextAssign]_vars

\* ------------------------------------------------------------------------
\* Properties
\* ------------------------------------------------------------------------
NoNaN(v) == ~IsNaN(v.x) /\ ~IsNaN(v.y)
Finite(v) == IsFin(v.x) /\ IsFin(v.y)
Receiver == vecs[recv]
Argument == vecs[arg]

\* C1: a < b holds exactly when a.x < b.x, or a.x == b.x and a.y < b.y:
\* x is compared first and y only breaks ties; in particular
\* (1,2) < (2,3) and (1,5) < (2,0), whatever the magnitudes are.
C1_LessIsLexicographic ==
  /\ op = "<" =>
       ret.b = ( \/ flt(Receiver.x, Argument.x)
                 \/ feq(Receiver.x, Argument.x) /\ flt(Receiver.y, Argument.y) )
  /\ op = "<" /\ Receiver = Vec(Num(1), Num(2)) /\ Argument = Vec(Num(2), Num(3)) => ret.b
  /\ op = "<" /\ Receiver = Vec(Num(1), Num(5)) /\ Argument = Vec(Num(2), PosZero) => ret.b
\* (1,5) < (2,0) was evaluated and is true although (1,5) is the longer vector
C1_Witness ==
  /\ op = "<" /\ ret.b
  /\ Receiver = Vec(Num(1), Num(5)) /\ Argument = Vec(Num(2), PosZero)

\* the number of the relations a < b, a == b, b < a that hold
HowMany(a, b) ==
  (IF Less(a, b) THEN 1 ELSE 0) + (IF Eq(a, b) THEN 1 ELSE 0) + (IF Less(b, a) THEN 1 ELSE 0)
CmpOps == { "==", "!=", "<", "<=", ">", ">=", "<=>" }
\* what == and != returned: == holds iff both components are equal and
\* != is its negation
EqIsComponentwise ==
  /\ op = "==" => ret.b = (feq(Receiver.x, Argument.x) /\ feq(Receiver.y, Argument.y))
  /\ op = "!=" => ret.b = ~(feq(Receiver.x, Argument.x) /\ feq(Receiver.y, Argument.y))
\* == on the operands of the comparison made and on any third vector
EqSymmetricTransitive ==
  /\ Eq(Receiver, Argument) => Eq(Argument, Receiver)
  /\ Eq(Receiver, Argument) => ~Less(Receiver, Argument) /\ ~Less(Argument, Receiver)
  /\ \A c \in InitVecs : Eq(Receiver, Argument) /\ Eq(Argument, c) => Eq(Receiver, c)

IsZeroVec(v) == IsZero(v.x) /\ IsZero(v.y)
\* the smallest normal number: below it a result has lost precision to underflow
MinNormal == Fin(0, Pow2(Precision - 1))
\* d is 1.0 up to one unit in its last place
NearOne(d) ==
  /\ IsFin(d) /\ d.s = 0
  /\ d.m - One <= Pow2(ExpOf(One))
  /\ One - d.m <= Pow2(ExpOf(One))

\* C3 as stated: normalized() of a vector whose length() is 0 is the zero
\* vector, and normalized() of any non-zero vector is that vector divided by
\* its length, a vector of length 1.
C3_Original ==
  op = "normalized" =>
    LET len == length(Receiver)
    IN /\ feq(len, PosZero) => ret.v = ZeroVec
       /\ ~IsZeroVec(Receiver) =>
            /\ ret.v = Vec(fdiv(Receiver.x, len), fdiv(Receiver.y, len))
            /\ NearOne(length(ret.v))

\* C3 amended: normalized() of a vector whose length() is not greater than 0
\* (0, also by underflow of x*x + y*y, or NaN) is the zero vector;
\* normalized() of a vector whose length() is greater than 0 is that vector
\* divided by its length(), and its length is 1 up to rounding when
\* x*x + y*y is finite and not below the smallest normal number.
C3_NormalizedByLength ==
  op = "normalized" =>
    LET len == length(Receiver)
    IN /\ ~fgt(len, PosZero) => ret.v = ZeroVec
       /\ fgt(len, PosZero) =>
            ret.v = Vec(fdiv(Receiver.x, len), fdiv(Receiver.y, len))
       /\ IsFin(length_sq(Receiver)) /\ ~flt(length_sq(Receiver), MinNormal) =>
            NearOne(length(ret.v))
\* normalized() was called on a non-zero vector whose length() is 0
C3_Witness ==
  /\ op = "normalized" /\ Receiver = Vec(MinSub, MinSub)
  /\ length(Receiver) = PosZero /\ ret.v = ZeroVec

\* C6 where nothing overflows (a, b, b - a, (b - a) * t and the result
\* have finite components): a.lerp(b, t) is a + (b - a) * t, a.lerp(b, 0) == a, a.lerp(b, 1) == b,
\* a.lerp(b, 2) == b + (b - a) and a.lerp(b, -1) == a - (b - a).
C6_Original ==
  /\ op = "lerp" /\ Finite(Receiver) /\ Finite(Argument)
  /\ Finite(Sub(Argument, Receiver)) /\ Finite(Mul(Sub(Argument, Receiver), sc))
  /\ Finite(ret.v)
  =>
    /\ ret.v = Add(Receiver, Mul(Sub(Argument, Receiver), sc))
    /\ sc = PosZero => Eq(ret.v, Receiver)
    /\ sc = Num(1) => Eq(ret.v, Argument)
    /\ sc = Num(2) => Eq(ret.v, Add(Argument, Sub(Argument, Receiver)))
    /\ sc = fneg(Num(1)) => Eq(ret.v, Sub(Receiver, Sub(Argument, Receiver)))

\* C7 as stated: v.perpendicular() is (-v.y, v.x), both dot products with v
\* are 0 and length_sq() is the same, for all vectors v.
C7_Original ==
  op = "perpendicular" =>
    /\ ret.v = Vec(fneg(Receiver.y), Receiver.x)
    /\ feq(dot(ret.v, Receiver), PosZero)
    /\ feq(dot(Receiver, ret.v), PosZero)
    /\ feq(length_sq(ret.v), length_sq(Receiver))

\* C7 amended: v.perpendicular() is (-v.y, v.x) for all v; length_sq() is
\* the same when v has no NaN component; both dot products with v are 0
\* when the product v.x * v.y is finite (every product and sum rounded on
\* its own).
C7_PerpendicularOrthogonal ==
  op = "perpendicular" =>
    /\ ret.v = Vec(fneg(Receiver.y), Receiver.x)
    /\ IsFin(fmul(Receiver.x, Receiver.y)) =>
         /\ feq(dot(ret.v, Receiver), PosZero)
         /\ feq(dot(Receiver, ret.v), PosZero)
    /\ NoNaN(Receiver) => feq(length_sq(ret.v), length_sq(Receiver))
\* perpendicular() was called on a vector with two non-zero components
C7_Witness ==
  /\ op = "perpendicular" /\ Receiver = Vec(Num(2), Num(3))
  /\ ret.v = Vec(fneg(Num(3)), Num(2))
  /\ feq(dot(ret.v, Receiver), PosZero)

\* b is a scalar multiple of a, or a is one of b, in exact arithmetic
Parallel(a, b) ==
  /\ Finite(a) /\ Finite(b)
  /\ Val(a.x) * Val(b.y) = Val(a.y) * Val(b.x)

\* C8 as stated: a.cross(b) is a.x*b.y - a.y*b.x, a.cross(a.perpendicular())
\* is positive for every non-zero a, a.cross(b) == -(b.cross(a)), and the
\* result is zero when b is a scalar multiple of a or either is the zero vector.
C8_Original ==
  op = "cross" =>
       /\ ret.d = fadd(fmul(Receiver.x, Argument.y), fneg(fmul(Receiver.y, Argument.x)))
       /\ feq(ret.d, fneg(cross(Argument, Receiver)))
       /\ Parallel(Receiver, Argument) \/ IsZeroVec(Receiver) \/ IsZeroVec(Argument) =>
            feq(ret.d, PosZero)
       /\ Receiver = Vec(Num(1), PosZero) /\ Argument = Vec(NegZero, Num(1)) => ret.d = Num(1)
       /\ ~IsZeroVec(Receiver) /\ Argument = perpendicular(Receiver) => fgt(ret.d, PosZero)
       /\ ~IsZeroVec(Receiver) => fgt(cross(Receiver, perpendicular(Receiver)), PosZero)

\* C8 amended: a.cross(b) is a.x*b.y - a.y*b.x; a.cross(a.perpendicular())
\* is a.length_sq(), positive exactly when that is; a.cross(b) == -(b.cross(a))
\* unless the result is NaN; the result is zero when b is a scalar multiple
\* of a or either is the zero vector, provided both products are finite.
C8_CrossSign ==
  op = "cross" =>
       /\ ret.d = fadd(fmul(Receiver.x, Argument.y), fneg(fmul(Receiver.y, Argument.x)))
       /\ ~IsNaN(ret.d) => feq(ret.d, fneg(cross(Argument, Receiver)))
       /\ /\ Parallel(Receiver, Argument) \/ IsZeroVec(Receiver) \/ IsZeroVec(Argument)
          /\ IsFin(fmul(Receiver.x, Argument.y))
          /\ IsFin(fmul(Receiver.y, Argument.x))
          => feq(ret.d, PosZero)
       /\ Receiver = Vec(Num(1), PosZero) /\ Argument = Vec(NegZero, Num(1)) => ret.d = Num(1)
       /\ Argument = perpendicular(Receiver) =>
            ret.d = length_sq(Receiver) /\ fgt(ret.d, PosZero) = fgt(length_sq(Receiver), PosZero)
       /\ cross(Receiver, perpendicular(Receiver)) = length_sq(Receiver)
\* cross was called with the operand a quarter turn counter-clockwise from
\* the receiver
C8_Witness ==
  /\ op = "cross"
  /\ Receiver = Vec(Num(1), PosZero) /\ Argument = perpendicular(Receiver)
  /\ ret.d = Num(1)

\* C9 as stated: distance_to and distance_sq_to are symmetric and zero
\* exactly when a == b, for all vectors a and b.
C9_Original ==
  /\ op = "distance_to" =>
       /\ feq(ret.d, distance_to(Argument, Receiver))
       /\ feq(ret.d, PosZero) = Eq(Receiver, Argument)
       /\ recv = arg => feq(ret.d, PosZero)
  /\ op = "distance_sq_to" =>
       /\ feq(ret.d, distance_sq_to(Argument, Receiver))
       /\ feq(ret.d, PosZero) = Eq(Receiver, Argument)

\* no component of d is a non-zero number whose square underflows to zero
SquaresKept(d) ==
  /\ IsZero(d.x) \/ ~IsZero(fmul(d.x, d.x))
  /\ IsZero(d.y) \/ ~IsZero(fmul(d.y, d.y))

\* C9 amended: for vectors with finite components, distance_to and
\* distance_sq_to are symmetric and zero when a == b; they are zero only
\* when a == b, unless a component of a - b is so small that its square
\* underflows to zero.
C9_DistanceSymmetric ==
  Finite(Receiver) /\ Finite(Argument) =>
    /\ op = "distance_to" =>
         /\ feq(ret.d, distance_to(Argument, Receiver))
         /\ Eq(Receiver, Argument) => feq(ret.d, PosZero)
         /\ SquaresKept(Sub(Receiver, Argument)) /\ feq(ret.d, PosZero) => Eq(Receiver, Argument)
    /\ op = "distance_sq_to" =>
         /\ feq(ret.d, distance_sq_to(Argument, Receiver))
         /\ Eq(Receiver, Argument) => feq(ret.d, PosZero)
         /\ SquaresKept(Sub(Receiver, Argument)) /\ feq(ret.d, PosZero) => Eq(Receiver, Argument)
\* the distance between two different finite vectors was taken
C9_Witness ==
  /\ op = "distance_to" /\ Receiver = Vec(Num(1), Num(2)) /\ Argument = Vec(Num(2), Num(3))
  /\ fgt(ret.d, PosZero) /\ ret.d = distance_to(Argument, Receiver)

\* C10: v * s and s * v return the same vector, (v.x * s, v.y * s).
C10_ScalarMulCommutes ==
  /\ op = "*" => ret.v = Vec(fmul(Receiver.x, sc), fmul(Receiver.y, sc))
  /\ op = "s*v" => ret.v = Vec(fmul(Receiver.x, sc), fmul(Receiver.y, sc))
  /\ \A i \in Ids, s \in Scalars : ScalarMul(s, vecs[i]) = Mul(vecs[i], s)
\* 2 * v was evaluated on a vector with two different non-zero components
C10_Witness ==
  /\ op = "s*v" /\ sc = Num(2) /\ Receiver = Vec(Num(1), Num(2))
  /\ ret.v = Vec(Num(2), Num(4))

CompoundIsBinary ==
  /\ op = "+=" => vecs[recv] = Add(prev[recv], prev[arg])
  /\ op = "-=" => vecs[recv] = Sub(prev[recv], prev[arg])
  /\ op = "*=" => vecs[recv] = Mul(prev[recv], sc)
  /\ op = "/=" => vecs[recv] = Div(prev[recv], sc)
  /\ op \in Compound => ret = RetRef(recv)
  /\ chain = vecs
  /\ op = "+=" /\ arg = recv => vecs[recv] = Mul(prev[recv], Num(2))

\* C5 as stated: a compound operator leaves in the receiver what the binary
\* operator returns and returns the receiver, so a chain of them equals the
\* chain of binary operators; v += v doubles v and v -= v gives the zero vector.
C5_Original ==
  /\ CompoundIsBinary
  /\ op = "-=" /\ arg = recv => vecs[recv] = ZeroVec

\* C5 amended: the same, but v -= v gives the zero vector only when the
\* components of v are finite (it gives NaN for an infinite or NaN component).
C5_CompoundIsBinary ==
  /\ CompoundIsBinary
  /\ op = "-=" /\ arg = recv /\ Finite(prev[recv]) => vecs[recv] = ZeroVec
\* a second compound operator was applied to a vector, with the receiver
\* itself as operand
C5_Witness ==
  /\ muts = 2 /\ op = "+=" /\ arg = recv
  /\ Finite(vecs[recv]) /\ ~IsZeroVec(vecs[recv])
  /\ chain[recv] = vecs[recv] /\ prev[recv] # vecs[recv]

====
